---- MODULE Spec2Model ----
(***************************************************************************)
(* Model of the Oura CSV ingestion script (src/main.py).                   *)
(*                                                                         *)
(* Strings that the program inspects character by character (directory    *)
(* names, file names, table names, storage paths, sampled cells) are       *)
(* sequences of one-character strings, so that the regular expressions,    *)
(* the replace() calls and the path join are computed as the code computes *)
(* them.  The filesystem and the sink are the environment: what            *)
(* os.listdir, os.path.isdir, pd.read_csv, pd.to_datetime and              *)
(* wr.s3.to_parquet return is an input of the step that calls them.        *)
(***************************************************************************)
EXTENDS Naturals, Sequences, FiniteSets

VARIABLES
    env,          \* the environment: filesystem (free or a fixed tree), sink reliability
    config,       \* loadConfig()'s result: whitelist_tables, aws_s3_data
    pc,           \* where the run is: "main", "looper", "participant", "done", "crashed"
    directories,  \* looper: os.listdir(dirpath)
    di,           \* looper: index of the next entry of directories
    subdir,       \* participantIngest: the directory being ingested
    files,        \* participantIngest: os.listdir(subdir)
    fi,           \* participantIngest: index of the next entry of files
    nSinkDir,     \* number of wr.s3.to_parquet calls made for files of subdir
    ev,           \* what the last step did (its log line, its calls, its result)
    runs,         \* number of times main() has been started
    sinkStore,    \* the sink's tables (only observed when the run is repeated)
    pin           \* the input of a single function application

vars == <<env, config, pc, directories, di, subdir, files, fi, nSinkDir, ev,
          runs, sinkStore, pin>>

----------------------------------------------------------------------------
(* Bounds of the model. *)

MaxEntries == 2     \* top-level entries in one listing
MaxFiles == 2       \* files in one participant directory
MaxRuns == 2        \* times the whole process is run over one tree
MaxDigits == 2      \* digits (or other characters) in a generated PPID number
MaxSegs == 5        \* underscore-delimited segments in a generated file name
MaxPathLen == 3     \* characters in a generated aws_s3_data value

----------------------------------------------------------------------------
(* Characters and string helpers. *)

Digit == {"0","1","2","3","4","5","6","7","8","9"}
Lower == {"a","b","c","d","e","f","g","h","i","j","k","l","m","n","o","p","q",
          "r","s","t","u","v","w","x","y","z"}
Upper == {"A","B","C","D","E","F","G","H","I","J","K","L","M","N","O","P","Q",
          "R","S","T","U","V","W","X","Y","Z"}
\* \w on ASCII input: letters, digits and the underscore.
Word == Digit \cup Lower \cup Upper \cup {"_"}
\* [0-9a-zA-Z \-]
TableCh == Digit \cup Lower \cup Upper \cup {" ", "-"}

\* The literal lit occurs in s at position p.
HasAt(s, p, lit) ==
    /\ p >= 1
    /\ p + Len(lit) - 1 <= Len(s)
    /\ \A i \in 1..Len(lit) : s[p + i - 1] = lit[i]

\* Every character of s[a..b] is in class S (true of an empty range).
AllIn(s, a, b, S) ==
    /\ a >= 1
    /\ b <= Len(s)
    /\ \A i \in a..b : s[i] \in S

\* Python's `$` without re.MULTILINE, tried at position p (the index of the
\* next unread character): the end of the string, or just before a newline
\* that is the last character.
AtDollar(s, p) ==
    \/ p = Len(s) + 1
    \/ p = Len(s) /\ s[p] = "\n"

StringsUpTo(S, n) == UNION {[1..k -> S] : k \in 0..n}

sPPID == <<"P","P","I","D"," ">>
sData == <<" ","D","a","t","a">>
sWithdrew == <<" ","D","a","t","a"," ","-"," ","w","i","t","h","d","r","e","w">>
sCsv == <<".","c","s","v">>
tSleep == <<"s","l","e","e","p">>
tActivity == <<"a","c","t","i","v","i","t","y">>
tSleepPeriods == <<"s","l","e","e","p","_","p","e","r","i","o","d","s">>
tHr == <<"h","r">>

----------------------------------------------------------------------------
(* looper: directory name patterns and the branch on them. *)

\* re.match(r'^PPID [0-9]+ Data$', s)
dir_name_active(s) ==
    \E n \in 1..Len(s) :
        /\ HasAt(s, 1, sPPID)
        /\ AllIn(s, 6, 5 + n, Digit)
        /\ HasAt(s, 6 + n, sData)
        /\ AtDollar(s, 6 + n + Len(sData))

\* re.match(r'^PPID [0-9]+ Data - withdrew$', s)
dir_name_withdrew(s) ==
    \E n \in 1..Len(s) :
        /\ HasAt(s, 1, sPPID)
        /\ AllIn(s, 6, 5 + n, Digit)
        /\ HasAt(s, 6 + n, sWithdrew)
        /\ AtDollar(s, 6 + n + Len(sWithdrew))

\* A plausible bug: the active pattern loses its `$` and is tested first.
classifyDirectoryActiveFirst(name) ==
    IF \E n \in 1..Len(name) :
          /\ HasAt(name, 1, sPPID)
          /\ AllIn(name, 6, 5 + n, Digit)
          /\ HasAt(name, 6 + n, sData)
    THEN "Active"
    ELSE IF dir_name_withdrew(name) THEN "Withdrawn" ELSE "Invalid"

\* The if / elif / else of looper's loop body.
classifyDirectory(name) ==
    IF dir_name_withdrew(name) THEN "Withdrawn"
    ELSE IF dir_name_active(name) THEN "Active"
    ELSE "Invalid"

\* A plausible bug: the is-a-directory test skips the entry.
looperBranchSkipNonDir(name, isdir) ==
    IF ~isdir THEN "Invalid" ELSE classifyDirectory(name)

\* What looper does with one entry: the isdir test only prints a warning, the
\* branch is taken on the name alone.
looperBranch(name, isdir) == classifyDirectory(name)

----------------------------------------------------------------------------
(* participantIngest: the file name pattern and the table name. *)

NoMatch == [matched |-> FALSE, g1 |-> <<>>, g2 |-> <<>>, g3 |-> <<>>, g4 |-> <<>>]

\* All ways r'^(\w+)_(\w+)_(\w+)_([0-9a-zA-Z \-]+)\.csv$' can be laid over s:
\* <<a, b, c, e>> are the positions of the three literal underscores and of
\* the last character of group 4.
FileSplits(s) ==
    LET U == {i \in 1..Len(s) : s[i] = "_"}
        E == {e \in 1..Len(s) : HasAt(s, e + 1, sCsv) /\ AtDollar(s, e + 5)}
        CE == {t \in U \X E : t[2] >= t[1] + 1 /\ AllIn(s, t[1] + 1, t[2], TableCh)}
        BC == {t \in U \X CE : t[2][1] >= t[1] + 2 /\ AllIn(s, t[1] + 1, t[2][1] - 1, Word)}
        AB == {t \in U \X BC : /\ t[1] >= 2
                               /\ t[2][1] >= t[1] + 2
                               /\ AllIn(s, 1, t[1] - 1, Word)
                               /\ AllIn(s, t[1] + 1, t[2][1] - 1, Word)}
    IN  {<<t[1], t[2][1], t[2][2][1], t[2][2][2]>> : t \in AB}

Groups(s, t) ==
    [matched |-> TRUE,
     g1 |-> SubSeq(s, 1, t[1] - 1),
     g2 |-> SubSeq(s, t[1] + 1, t[2] - 1),
     g3 |-> SubSeq(s, t[2] + 1, t[3] - 1),
     g4 |-> SubSeq(s, t[3] + 1, t[4])]

\* t comes before u in the matcher's search order: each greedy group is
\* tried longest first, the leftmost group varying slowest.
GreedyBefore(t, u) ==
    \/ t[1] > u[1]
    \/ t[1] = u[1] /\ t[2] > u[2]
    \/ t[1] = u[1] /\ t[2] = u[2] /\ t[3] > u[3]
    \/ t[1] = u[1] /\ t[2] = u[2] /\ t[3] = u[3] /\ t[4] >= u[4]

\* The search order had groups 1 and 2 been lazy (\w+?).
LazyBefore(t, u) ==
    \/ t[1] < u[1]
    \/ t[1] = u[1] /\ t[2] < u[2]
    \/ t[1] = u[1] /\ t[2] = u[2] /\ t[3] > u[3]
    \/ t[1] = u[1] /\ t[2] = u[2] /\ t[3] = u[3] /\ t[4] >= u[4]

\* The match the search over the layouts S of s ends with.
GreedyMatch(s, S) ==
    IF S = {} THEN NoMatch
    ELSE Groups(s, CHOOSE t \in S : \A u \in S : GreedyBefore(t, u))

LazyMatch(s, S) ==
    IF S = {} THEN NoMatch
    ELSE Groups(s, CHOOSE t \in S : \A u \in S : LazyBefore(t, u))

\* A plausible bug: the tag groups written as lazy, so that the first groups
\* are the shortest possible instead of the longest.
file_name_lazy(s) == LazyMatch(s, FileSplits(s))

\* re.match(file_name, s): the backtracking matcher returns the first layout
\* in its search order.
file_name(s) == GreedyMatch(s, FileSplits(s))

\* str.replace(old, new) for one-character old and new.
Replace(s, old, new) == [i \in 1..Len(s) |-> IF s[i] = old THEN new ELSE s[i]]

\* tablename.replace(' ', '_') followed by tablename.replace('-', '_')
normalize(raw) == Replace(Replace(raw, " ", "_"), "-", "_")

\* A plausible bug: the whitelist test is dropped.
whitelistedAlways(tablename, cfg) == TRUE

\* tablename in config['whitelist_tables']
whitelisted(tablename, cfg) == tablename \in cfg.whitelist

----------------------------------------------------------------------------
(* ingestData: the storage path. *)

\* The f-strings of lines 92-94; s3_path[-1] raises IndexError on ''.
table_path(s3_path, tablename) ==
    IF s3_path = <<>>
    THEN [raised |-> TRUE, path |-> <<>>]
    ELSE IF s3_path[Len(s3_path)] = "/"
         THEN [raised |-> FALSE, path |-> s3_path \o tablename \o <<"/">>]
         ELSE [raised |-> FALSE, path |-> s3_path \o <<"/">> \o tablename \o <<"/">>]

----------------------------------------------------------------------------
(* smartTyper and sampleEntry. *)

\* A cell of a loaded column: its Python type and, for a str, its characters.
StrCell(s) == [type |-> "str", s |-> s]
FloatCell == [type |-> "float", s |-> <<>>]
NoneCell == [type |-> "NoneType", s |-> <<>>]

\* A column of a loaded table, or the absence of the column.
Col(cells) == [present |-> TRUE, cells |-> cells]
NoCol == [present |-> FALSE, cells |-> <<>>]

\* sampleEntry: column[0], or None when that lookup raises.
sampleEntry(column) == IF Len(column.cells) >= 1 THEN column.cells[1] ELSE NoneCell

IsMonth(a, b) ==
    \/ a = "0" /\ b \in Digit \ {"0"}
    \/ a = "1" /\ b \in {"0","1","2"}

IsDay(a, b) ==
    \/ a = "0" /\ b \in Digit \ {"0"}
    \/ a \in {"1","2"} /\ b \in Digit
    \/ a = "3" /\ b \in {"0","1"}

\* A plausible bug: the pattern without its closing \b.
date_exp_unbounded(s) ==
    /\ Len(s) >= 10
    /\ AllIn(s, 1, 4, Digit)
    /\ s[5] = "-"
    /\ IsMonth(s[6], s[7])
    /\ s[8] = "-"
    /\ IsDay(s[9], s[10])

\* re.match(r'\b(\d{4})-(0[1-9]|1[0-2])-(0[1-9]|1[0-9]|2[0-9]|3[01])\b', s):
\* anchored at the start only.  The opening \b holds because s[1] is a digit;
\* the closing \b holds at the end of s or before a non-word character.
date_exp(s) ==
    /\ Len(s) >= 10
    /\ AllIn(s, 1, 4, Digit)
    /\ s[5] = "-"
    /\ IsMonth(s[6], s[7])
    /\ s[8] = "-"
    /\ IsDay(s[9], s[10])
    /\ (Len(s) = 10 \/ s[11] \notin Word)

\* smartTyper(example, df, col, True).  parseRaises is whether
\* pd.to_datetime(df[col]) raises ValueError.  ret is what the function
\* returns: "type" is the class object type(str), "None" is None (the except
\* branch and the fall-through when the pattern does not match), "df" is the
\* table with the column replaced.  log is the line it prints.
smartTyper(example, column, parseRaises) ==
    IF example.type # "str"
    THEN [ret |-> "type", log |-> "none"]
    ELSE IF date_exp(example.s)
         THEN IF parseRaises
              THEN [ret |-> "None", log |-> "warning"]
              ELSE [ret |-> "df", log |-> "updated"]
         ELSE [ret |-> "None", log |-> "none"]

(* pd.to_datetime on a column of cells: the outcomes the library can give. *)

DigitVal(c) ==
    CASE c = "0" -> 0 [] c = "1" -> 1 [] c = "2" -> 2 [] c = "3" -> 3
      [] c = "4" -> 4 [] c = "5" -> 5 [] c = "6" -> 6 [] c = "7" -> 7
      [] c = "8" -> 8 [] c = "9" -> 9

Num2(a, b) == 10 * DigitVal(a) + DigitVal(b)

DaysIn(y, m) ==
    IF m = 2
    THEN IF y % 4 = 0 /\ (y % 100 # 0 \/ y % 400 = 0) THEN 29 ELSE 28
    ELSE IF m \in {4, 6, 9, 11} THEN 30 ELSE 31

\* s has the shape dddd-dd-dd and nothing else.
DateShaped(s) ==
    /\ Len(s) = 10
    /\ AllIn(s, 1, 4, Digit) /\ s[5] = "-"
    /\ AllIn(s, 6, 7, Digit) /\ s[8] = "-"
    /\ AllIn(s, 9, 10, Digit)

\* s is a date of the calendar, in the range of a nanosecond timestamp.
IsCalendarDate(s) ==
    /\ DateShaped(s)
    /\ LET y == 100 * Num2(s[1], s[2]) + Num2(s[3], s[4])
           m == Num2(s[6], s[7])
           d == Num2(s[9], s[10])
       IN  /\ y \in 1700..2200
           /\ m \in 1..12
           /\ d \in 1..DaysIn(y, m)

\* The parse of this cell is certain to raise: a date shape that is no date
\* of the calendar, or text without a digit.
CertainFail(cell) ==
    /\ cell.type = "str"
    /\ \/ DateShaped(cell.s) /\ ~IsCalendarDate(cell.s)
       \/ cell.s # <<>> /\ AllIn(cell.s, 1, Len(cell.s), Lower \cup Upper)

CertainOk(cell) == cell.type = "str" /\ IsCalendarDate(cell.s)

\* Whether pd.to_datetime(column) raises ValueError: decided where the
\* library's behaviour is certain, either way otherwise.
ToDatetimeRaises(column) ==
    IF \E i \in 1..Len(column.cells) : CertainFail(column.cells[i]) THEN {TRUE}
    ELSE IF \A i \in 1..Len(column.cells) : CertainOk(column.cells[i]) THEN {FALSE}
    ELSE BOOLEAN

----------------------------------------------------------------------------
(* The inputs of a run: names, file contents, configurations. *)

dA1 == <<"P","P","I","D"," ","1"," ","D","a","t","a">>
dA3 == <<"P","P","I","D"," ","3","0"," ","D","a","t","a">>
dW2 == <<"P","P","I","D"," ","2"," ","D","a","t","a"," ","-"," ","w","i","t","h","d","r","e","w">>
dX == <<"n","o","t","e","s">>
DirCat == {dA1, dA3, dW2, dX}

fSleep == <<"a","_","b","_","1","_","s","l","e","e","p",".","c","s","v">>
fSleep2 == <<"x","_","a","_","b","_","2","_","s","l","e","e","p",".","c","s","v">>
fPeriods == <<"x","_","a","_","b","_","2","_","s","l","e","e","p","-","p","e","r","i","o","d","s",".","c","s","v">>
fHr == <<"a","_","b","_","1","_","h","r",".","c","s","v">>
fBad == <<"b","a","d"," ","n","a","m","e",".","c","s","v">>
FileCat == {fSleep, fPeriods, fHr, fBad}

\* os.listdir returns each name once.
Listings(S, n) ==
    {l \in StringsUpTo(S, n) : \A i, j \in 1..Len(l) : i # j => l[i] # l[j]}

RootListings == Listings(DirCat, MaxEntries)
FileListings == Listings(FileCat, MaxFiles)

cDateOk == StrCell(<<"2","0","2","4","-","0","1","-","1","5">>)
cDateBad == StrCell(<<"2","0","2","4","-","0","2","-","3","1">>)
cHello == StrCell(<<"h","e","l","l","o">>)

\* What pd.read_csv can load: the two columns the typer looks at, each absent,
\* empty, or holding cells.  readable = FALSE is a file open() or read_csv
\* raises on.
Content(sd, day) == [readable |-> TRUE, summary_date |-> sd, day |-> day]
Unreadable == [readable |-> FALSE, summary_date |-> NoCol, day |-> NoCol]
ColCat == {Col(<<>>), Col(<<FloatCell>>), Col(<<cDateOk>>), Col(<<cDateBad>>),
           Col(<<cHello>>), Col(<<cDateOk, cHello>>)}
Contents ==
    {Unreadable, Content(NoCol, NoCol)}
        \cup {Content(c, NoCol) : c \in ColCat}
        \cup {Content(NoCol, c) : c \in {Col(<<cDateOk>>), Col(<<cHello>>)}}

\* whitelist.txt as written in normalized form, and one with a raw entry.
Whitelists ==
    {{tSleep, tActivity, tSleepPeriods},
     {tSleep, tHr, <<"s","l","e","e","p","-","p","e","r","i","o","d","s">>}}
Configs == [whitelist : Whitelists, s3 : {<<"b">>, <<>>}, database : {"db"}]

(* The environment: a free filesystem answers every call with any value; a  *)
(* fixed tree answers the same way each time it is asked.                   *)

NoTree == [root |-> <<>>, layout |-> "none", good |-> TRUE]
FreeEnv == [fixed |-> FALSE, tree |-> NoTree, reliable |-> FALSE]

\* The file listings of a fixed tree's directories.
LayoutFiles(layout, name) ==
    CASE layout = "same" -> <<fSleep, fSleep2>>
      [] layout = "split" -> IF name = dA1 THEN <<fSleep, fHr>> ELSE <<fSleep2>>
      [] layout = "mixed" -> IF name = dA1 THEN <<fBad, fSleep2>> ELSE <<fPeriods, fSleep>>
      [] OTHER -> <<>>

FixedTrees ==
    [root : RootListings, layout : {"same", "split", "mixed"}, good : BOOLEAN]

os_listdir_root == IF env.fixed THEN {env.tree.root} ELSE RootListings

os_path_isdir(name) == IF env.fixed THEN {TRUE} ELSE BOOLEAN

os_listdir(name) ==
    IF env.fixed THEN {LayoutFiles(env.tree.layout, name)} ELSE FileListings

pd_read_csv(dir, file) ==
    IF env.fixed
    THEN {IF env.tree.good THEN Content(Col(<<cDateOk>>), Col(<<cDateOk>>))
                            ELSE Content(Col(<<cHello>>), Col(<<cDateOk>>))}
    ELSE Contents

----------------------------------------------------------------------------
(* ingestData up to the sink call. *)

NoBatch == [kind |-> "none", data |-> Unreadable, pid |-> <<>>, datetime |-> {}]

\* The column the manual lookup of lines 103-106 hands to smartTyper.
typerColumn(tablename) ==
    IF tablename = tActivity \/ tablename = tSleep THEN "summary_date"
    ELSE IF tablename = tSleepPeriods THEN "day"
    ELSE "none"

ColumnOf(data, col) == IF col = "day" THEN data.day ELSE data.summary_date

Batch(kind, data, pid, datetime) ==
    [kind |-> kind, data |-> data, pid |-> pid, datetime |-> datetime]

Ingest(raised, path, typer, df) ==
    [raised |-> raised, path |-> path, typer |-> typer, df |-> df]

\* data = smartTyper(...): data becomes the return value whatever it is.
typed(r, data, pid, col) ==
    IF r.ret = "df" THEN Batch("df", data, pid, {col})
    ELSE Batch(r.ret, Unreadable, <<>>, {})

\* Lines 96-106 for the looked-up column col, the path being computed.
ingestTyped(path, data, pid, col, parseRaises) ==
    IF col = "none"
    THEN Ingest("none", path, "none", Batch("df", data, pid, {}))
    ELSE IF ~ColumnOf(data, col).present
    THEN Ingest("KeyError", path, "none", NoBatch)
    ELSE Ingest("none", path,
                smartTyper(sampleEntry(ColumnOf(data, col)), ColumnOf(data, col),
                           parseRaises).log,
                typed(smartTyper(sampleEntry(ColumnOf(data, col)), ColumnOf(data, col),
                                 parseRaises),
                      data, pid, col))

ingestPath(tp, data, pid, col, parseRaises) ==
    IF tp.raised THEN Ingest("IndexError", <<>>, "none", NoBatch)
    ELSE ingestTyped(tp.path, data, pid, col, parseRaises)

\* Lines 90-106: the path, the pid column, the typer.  raised names the
\* exception that leaves the function before the sink call, df is the value
\* handed to the sink.
ingestData(data, pid, tablename, cfg, parseRaises) ==
    ingestPath(table_path(cfg.s3, tablename), data, pid, typerColumn(tablename),
               parseRaises)

\* The values pd.to_datetime's outcome can take for this file (FALSE when it
\* is not called).
ParseChoices(data, tablename) ==
    IF typerColumn(tablename) = "none" THEN {FALSE}
    ELSE ToDatetimeRaises(ColumnOf(data, typerColumn(tablename)))

(* The sink. *)

\* wr.s3.to_parquet raises on a df that is no table; on a table it may raise
\* unless the sink is reliable.
SinkOutcomes(df) ==
    IF df.kind # "df" THEN {"raise"}
    ELSE IF env.reliable THEN {"ok"} ELSE {"ok", "raise"}

\* A plausible bug: mode='overwrite', which replaces the table's rows.
SinkWriteOverwrite(store, call) ==
    IF ~store.observed THEN store
    ELSE [store EXCEPT !.rows =
            Append(SelectSeq(@, LAMBDA r : r.table # call.table),
                   [table |-> call.table, src |-> call.src, pid |-> call.df.pid])]

\* A successful to_parquet(dataset=True) in its default mode: the rows are
\* added to the table, which is created when absent.
SinkWrite(store, call) ==
    IF ~store.observed THEN store
    ELSE [store EXCEPT !.rows =
            Append(@, [table |-> call.table, src |-> call.src, pid |-> call.df.pid])]

NoCall == [called |-> FALSE, df |-> NoBatch, path |-> <<>>, database |-> "",
           table |-> <<>>, partition_cols |-> <<>>, src |-> <<>>]

----------------------------------------------------------------------------
(* The run. *)

EvNone == [kind |-> "none"]
NoInput == [kind |-> "none"]

InitRun ==
    /\ pc = "main"
    /\ directories = <<>>
    /\ di = 1
    /\ subdir = <<>>
    /\ files = <<>>
    /\ fi = 1
    /\ nSinkDir = 0
    /\ ev = EvNone
    /\ runs = 1
    /\ pin = NoInput

\* One run over any filesystem, with a sink that may raise on any call.
Init ==
    /\ env = FreeEnv
    /\ config \in Configs
    /\ sinkStore = [observed |-> FALSE, rows |-> <<>>]
    /\ InitRun

\* main() after loadConfig(): looper lists the root directory.
Main ==
    /\ pc = "main"
    /\ \E l \in os_listdir_root : directories' = l
    /\ di' = 1
    /\ pc' = "looper"
    /\ ev' = [kind |-> "main"]
    /\ UNCHANGED <<env, config, subdir, files, fi, nSinkDir, runs, sinkStore, pin>>

EntryEvent(index, name, isdir, branch, listed, raised) ==
    [kind |-> "entry", index |-> index, name |-> name, isdir |-> isdir,
     warnedNotDir |-> ~isdir, branch |-> branch, listed |-> listed,
     raised |-> raised]

\* One iteration of looper's loop, up to and including the os.listdir call
\* that opens participantIngest.
LooperStep ==
    /\ pc = "looper"
    /\ di <= Len(directories)
    /\ LET name == directories[di] IN
       \E isdir \in os_path_isdir(name) :
          LET branch == looperBranch(name, isdir)
          IN  IF branch = "Active" /\ ~isdir
              THEN \* os.listdir(subdir) raises NotADirectoryError, uncaught
                   /\ pc' = "crashed"
                   /\ ev' = EntryEvent(di, name, isdir, branch, FALSE, TRUE)
                   /\ UNCHANGED <<di, subdir, files, fi, nSinkDir>>
              ELSE IF branch = "Active"
              THEN \E l \in os_listdir(name) :
                     /\ subdir' = name
                     /\ files' = l
                     /\ fi' = 1
                     /\ nSinkDir' = 0
                     /\ di' = di + 1
                     /\ pc' = IF l = <<>> THEN "looper" ELSE "participant"
                     /\ ev' = EntryEvent(di, name, isdir, branch, TRUE, FALSE)
              ELSE /\ di' = di + 1
                   /\ pc' = "looper"
                   /\ ev' = EntryEvent(di, name, isdir, branch, FALSE, FALSE)
                   /\ UNCHANGED <<subdir, files, fi, nSinkDir>>
    /\ UNCHANGED <<env, config, directories, runs, sinkStore, pin>>

\* looper's loop is exhausted: main returns.
Finish ==
    /\ pc = "looper"
    /\ di > Len(directories)
    /\ pc' = "done"
    /\ UNCHANGED <<env, config, directories, di, subdir, files, fi, nSinkDir, ev,
                   runs, sinkStore, pin>>

FileEvent(dir, file, m, read, loaded, raised, typer, call, sinkRaised, log) ==
    [kind |-> "file", dir |-> dir, name |-> file, matched |-> m.matched,
     pid |-> m.g3, raw |-> m.g4, tablename |-> normalize(m.g4), read |-> read,
     loaded |-> loaded, raised |-> raised, typer |-> typer, call |-> call,
     sinkRaised |-> sinkRaised, log |-> log]

SinkCall(df, path, database, table, src) ==
    [called |-> TRUE, df |-> df, path |-> path, database |-> database,
     table |-> table, partition_cols |-> <<"pid">>, src |-> src]

\* ingestData from its result r before the sink call: an exception leaves it,
\* or the sink is called and its exception, if any, is caught and logged.
ingested(dir, file, m, cfg, content, r, sinkOutcome) ==
    IF r.raised # "none"
    THEN FileEvent(dir, file, m, TRUE, content, r.raised, "none", NoCall, FALSE,
                   "ingesting")
    ELSE FileEvent(dir, file, m, TRUE, content, "none", r.typer,
                   SinkCall(r.df, r.path, cfg.database, normalize(m.g4), <<dir, file>>),
                   sinkOutcome = "raise",
                   IF sinkOutcome = "raise" THEN "error" ELSE "ingesting")

\* The body of participantIngest's loop for a file whose match is m.
matchedStep(dir, file, m, cfg, content, parseRaises, sinkOutcome) ==
    IF ~m.matched
    THEN FileEvent(dir, file, m, FALSE, Unreadable, "none", "none", NoCall, FALSE,
                   "warning")
    ELSE IF ~whitelisted(normalize(m.g4), cfg)
    THEN FileEvent(dir, file, m, FALSE, Unreadable, "none", "none", NoCall, FALSE,
                   "none")
    ELSE IF ~content.readable
    THEN FileEvent(dir, file, m, TRUE, Unreadable, "ReadError", "none", NoCall, FALSE,
                   "none")
    ELSE ingested(dir, file, m, cfg, content,
                  ingestData(content, m.g3, normalize(m.g4), cfg, parseRaises),
                  sinkOutcome)

\* What one iteration of participantIngest's loop does with file, given what
\* the environment answers: the content read_csv loads, whether to_datetime
\* raises, whether the sink raises.
fileStep(dir, file, cfg, content, parseRaises, sinkOutcome) ==
    matchedStep(dir, file, file_name(file), cfg, content, parseRaises, sinkOutcome)

\* The effect of a file step whose event is e.
FileEffect(e) ==
    /\ ev' = e
    /\ IF e.raised # "none"
       THEN /\ pc' = "crashed"
            /\ UNCHANGED <<fi, nSinkDir, sinkStore>>
       ELSE /\ fi' = fi + 1
            /\ pc' = IF fi + 1 > Len(files) THEN "looper" ELSE "participant"
            /\ nSinkDir' = IF e.call.called THEN nSinkDir + 1 ELSE nSinkDir
            /\ sinkStore' = IF e.call.called /\ ~e.sinkRaised
                            THEN SinkWrite(sinkStore, e.call)
                            ELSE sinkStore

\* One iteration of participantIngest's loop, through ingestData and the sink.
FileStep ==
    /\ pc = "participant"
    /\ fi <= Len(files)
    /\ \E m \in {file_name(files[fi])} :
       \E content \in pd_read_csv(subdir, files[fi]) :
       \E parseRaises \in ParseChoices(content, normalize(m.g4)) :
       \E sinkOutcome \in {"ok", "raise"} :
       \E e \in {matchedStep(subdir, files[fi], m, config, content, parseRaises,
                             sinkOutcome)} :
          /\ e.call.called => sinkOutcome \in SinkOutcomes(e.call.df)
          /\ FileEffect(e)
    /\ UNCHANGED <<env, config, directories, di, subdir, files, runs, pin>>

Next == Main \/ LooperStep \/ Finish \/ FileStep

Spec == Init /\ [][Next]_vars

----------------------------------------------------------------------------
(* The process run again over an unchanged tree, with a sink that keeps its *)
(* tables and does not fail on a table.                                     *)

InitRerun ==
    /\ env \in [fixed : {TRUE}, tree : FixedTrees, reliable : {TRUE}]
    /\ config \in Configs
    /\ sinkStore = [observed |-> TRUE, rows |-> <<>>]
    /\ InitRun

\* The operator starts main() again after it returned or died.
Rerun ==
    /\ pc \in {"done", "crashed"}
    /\ runs < MaxRuns
    /\ runs' = runs + 1
    /\ pc' = "main"
    /\ ev' = [kind |-> "rerun"]
    /\ UNCHANGED <<env, config, directories, di, subdir, files, fi, nSinkDir,
                   sinkStore, pin>>

NextRerun == Main \/ LooperStep \/ Finish \/ FileStep \/ Rerun

SpecRerun == InitRerun /\ [][NextRerun]_vars

----------------------------------------------------------------------------
(* Single applications of the classifiers, the path join and the typer, on  *)
(* generated inputs.                                                        *)

Input(kind, name, s3, table, column, parseRaises) ==
    [kind |-> kind, name |-> name, s3 |-> s3, table |-> table, column |-> column,
     parseRaises |-> parseRaises]

\* Directory names: a prefix, up to n characters, a suffix.
DirPre == {sPPID, <<"P","P","I","D">>, <<"x">> \o sPPID, <<"p","p","i","d"," ">>}
DirPost == {sData, sData \o <<"\n">>, sData \o <<"\n","\n">>, sData \o <<"x">>,
            sWithdrew, sWithdrew \o <<"\n">>, sWithdrew \o <<" ">>, <<>>}
DirNames(n) ==
    {p \o d \o q : p \in DirPre, d \in StringsUpTo({"0","7","a"}, n), q \in DirPost}

\* File names: up to n segments joined by underscores, and an extension.
SegCat == {<<>>, <<"a">>, <<"0","1">>, <<"s"," ","p","-","q">>}
ExtCat == {sCsv, sCsv \o <<"\n">>, <<".","t","x","t">>, <<>>}

RECURSIVE JoinSegs(_)
JoinSegs(segs) ==
    IF Len(segs) = 1 THEN segs[1]
    ELSE segs[1] \o <<"_">> \o JoinSegs(Tail(segs))

FileNames(n) ==
    {JoinSegs(segs) \o x : segs \in UNION {[1..k -> SegCat] : k \in 1..n}, x \in ExtCat}

\* Storage roots: every string of b and / up to n characters.
S3Paths(n) == StringsUpTo({"b", "/"}, n)

\* Sampled cells: text around the shape of a date, and what is no text.
DD == {"0","1","2","3","9"}
TwoDD == {<<a, b>> : a \in DD, b \in DD}
Years == {<<"2","0","2","4">>, <<"2","0","2","3">>, <<"2","0","2">>}
Tails == {<<>>, <<" ">>, <<" ","1">>, <<"T">>, <<"5">>, <<"\n">>, <<"_">>}
DateTexts(years) ==
    {y \o <<"-">> \o m \o sep \o d \o tail :
        y \in years, m \in TwoDD, d \in TwoDD, sep \in {<<"-">>, <<"/">>},
        tail \in Tails}
SniffColumns(years) ==
    {Col(<<>>), Col(<<FloatCell>>), Col(<<cHello>>), Col(<<cDateOk, cHello>>)}
        \cup {Col(<<StrCell(t)>>) : t \in DateTexts(years)}

PureInputs(nDigits, nSegs, nPath, years) ==
    {Input("dir", n, <<>>, <<>>, NoCol, FALSE) : n \in DirNames(nDigits)}
        \cup {Input("file", n, <<>>, <<>>, NoCol, FALSE) : n \in FileNames(nSegs)}
        \cup {Input("path", <<>>, p, t, NoCol, FALSE) :
                 p \in S3Paths(nPath), t \in {tSleep, tSleepPeriods}}
        \cup {i \in {Input("sniff", <<>>, <<>>, <<>>, c, r) :
                        c \in SniffColumns(years), r \in BOOLEAN} :
                 i.parseRaises \in ToDatetimeRaises(i.column)}

PureConfig == [whitelist |-> {tSleep, tActivity, tSleepPeriods}, s3 |-> <<"b">>,
               database |-> "db"]

InitPure ==
    /\ env = FreeEnv
    /\ config = PureConfig
    /\ pc = "apply"
    /\ directories = <<>>
    /\ di = 1
    /\ subdir = <<>>
    /\ files = <<>>
    /\ fi = 1
    /\ nSinkDir = 0
    /\ ev = EvNone
    /\ runs = 1
    /\ sinkStore = [observed |-> FALSE, rows |-> <<>>]
    /\ pin \in PureInputs(MaxDigits, MaxSegs, MaxPathLen, Years)

Applied(e) ==
    /\ pc = "apply"
    /\ pc' = "applied"
    /\ ev' = e
    /\ UNCHANGED <<env, config, directories, di, subdir, files, fi, nSinkDir,
                   runs, sinkStore, pin>>

\* looper's branch on one entry name (of a directory).
ApplyClassifyDirectory ==
    /\ pin.kind = "dir"
    /\ Applied([kind |-> "dir", name |-> pin.name,
                class |-> classifyDirectory(pin.name),
                descends |-> (looperBranch(pin.name, TRUE) = "Active")])

\* participantIngest's loop body on one file name (of a loadable file).
ApplyFileName ==
    /\ pin.kind = "file"
    /\ Applied(fileStep(dA1, pin.name, config,
                        Content(Col(<<cDateOk>>), Col(<<cDateOk>>)), FALSE, "ok"))

\* ingestData's path computation.
ApplyTablePath ==
    /\ pin.kind = "path"
    /\ Applied([kind |-> "path", raised |-> table_path(pin.s3, pin.table).raised,
                path |-> table_path(pin.s3, pin.table).path])

\* smartTyper on the sample of one column.
ApplySmartTyper ==
    /\ pin.kind = "sniff"
    /\ Applied([kind |-> "sniff",
                ret |-> smartTyper(sampleEntry(pin.column), pin.column,
                                   pin.parseRaises).ret,
                log |-> smartTyper(sampleEntry(pin.column), pin.column,
                                   pin.parseRaises).log])

NextPure == ApplyClassifyDirectory \/ ApplyFileName \/ ApplyTablePath \/ ApplySmartTyper

SpecPure == InitPure /\ [][NextPure]_vars

----------------------------------------------------------------------------
(* Vocabulary of the properties, written without the program's operators.   *)

Alnum == Digit \cup Lower \cup Upper

EndsWith(s, suffix) ==
    /\ Len(s) >= Len(suffix)
    /\ SubSeq(s, Len(s) - Len(suffix) + 1, Len(s)) = suffix

\* The underscore-delimited segments of s.
RECURSIVE SplitOn(_)
SplitOn(s) ==
    IF \A i \in 1..Len(s) : s[i] # "_" THEN <<s>>
    ELSE LET i == CHOOSE k \in 1..Len(s) :
                     s[k] = "_" /\ \A j \in 1..(k - 1) : s[j] # "_"
         IN  <<SubSeq(s, 1, i - 1)>> \o SplitOn(SubSeq(s, i + 1, Len(s)))

NonEmptySegs(g) == \A i \in 1..Len(g) : g[i] # <<>>

\* The last segment carries the extension: .csv, possibly before one newline.
HasCsvExt(seg) == EndsWith(seg, sCsv) \/ EndsWith(seg, sCsv \o <<"\n">>)
TableOf(seg) ==
    IF EndsWith(seg, sCsv) THEN SubSeq(seg, 1, Len(seg) - 4)
    ELSE SubSeq(seg, 1, Len(seg) - 5)

TagSegs(g, k) == \A i \in 1..k : g[i] # <<>> /\ AllIn(g[i], 1, Len(g[i]), Alnum)

\* The whole name is PPID, a space, digits, and the suffix.
ExactName(name, suffix) ==
    \E n \in 1..Len(name) :
        /\ Len(name) = 5 + n + Len(suffix)
        /\ SubSeq(name, 1, 5) = sPPID
        /\ \A i \in 6..(5 + n) : name[i] \in Digit
        /\ SubSeq(name, 6 + n, Len(name)) = suffix

\* t is raw with every space and hyphen replaced by an underscore.
IsNormalOf(raw, t) ==
    /\ Len(t) = Len(raw)
    /\ \A i \in 1..Len(raw) :
          t[i] = (IF raw[i] = " " \/ raw[i] = "-" THEN "_" ELSE raw[i])

\* s begins with YYYY-MM-DD, month 01-12 and day 01-31 by their numbers.
PrefixDate(s) ==
    /\ Len(s) >= 10
    /\ AllIn(s, 1, 4, Digit) /\ s[5] = "-"
    /\ AllIn(s, 6, 7, Digit) /\ s[8] = "-"
    /\ AllIn(s, 9, 10, Digit)
    /\ Num2(s[6], s[7]) \in 1..12
    /\ Num2(s[9], s[10]) \in 1..31

\* The number of row batches of file src = <<dir, file>> in the sink.
Rows(src) ==
    Cardinality({i \in 1..Len(sinkStore.rows) : sinkStore.rows[i].src = src})

----------------------------------------------------------------------------
(* C1 *)

\* The root listing holds one active and one withdrawn entry, and the one
\* directory that was listed holds one well-named, whitelisted file.
C1_Scenario ==
    /\ Len(directories) = 2
    /\ \E i, j \in 1..2 :
          /\ dir_name_active(directories[i])
          /\ dir_name_withdrew(directories[j])
    /\ Len(files) = 1
    /\ file_name(files[1]).matched
    /\ normalize(file_name(files[1]).g4) \in config.whitelist

\* C1: looper never descends into an entry whose name matches the withdrawn
\* pattern: it is not listed, none of its files is read or submitted, and the
\* loop goes on with the next entry; a run that completes over one active and
\* one withdrawn participant, one eligible file each, has made exactly one
\* sink call.
C1_WithdrawnNeverEntered ==
    /\ pc = "participant" => ~dir_name_withdrew(subdir)
    /\ ev.kind = "file" => ~dir_name_withdrew(ev.dir)
    /\ ev.kind = "entry" /\ dir_name_withdrew(ev.name)
          => /\ ~ev.listed
             /\ ~ev.raised
             /\ pc \in {"looper", "done"}
             /\ di = ev.index + 1
    /\ C1_Scenario => nSinkDir <= 1
    /\ pc = "done" /\ C1_Scenario => nSinkDir = 1

C1_Witness ==
    /\ pc = "done"
    /\ C1_Scenario
    /\ nSinkDir = 1
    /\ ev.kind = "entry" /\ dir_name_withdrew(ev.name) /\ ~ev.listed

(* C2 *)

\* C2: every well-named, whitelisted file of an active directory gets
\* exactly one sink call, and no exception ends the run at that file.  Read
\* over the files that load, under a non-empty storage root.
C2_PerFileIsolation ==
    ev.kind = "file" /\ ev.matched /\ ev.tablename \in config.whitelist
        /\ ev.loaded.readable /\ config.s3 # <<>>
        => /\ ev.call.called
           /\ ev.raised = "none"
           /\ pc # "crashed"

(* C3 *)

\* C3: for a table of the typer's lookup, when smartTyper makes no
\* conversion the sink receives the loaded table, its column unconverted,
\* with the pid column.
C3_NoConversionKeepsTable ==
    ev.kind = "file" /\ ev.call.called /\ ev.tablename \in {tActivity, tSleep, tSleepPeriods}
        /\ ev.typer # "updated"
        => ev.call.df = [kind |-> "df", data |-> ev.loaded, pid |-> ev.pid,
                         datetime |-> {}]

(* C5 *)

\* C5: the sink is called only with a table identifier that is the file's raw
\* table name normalized and that is in the whitelist; a matched file whose
\* normalized table name is not whitelisted is neither loaded nor submitted,
\* and the loop goes on with the next file.
C5_WhitelistGate ==
    ev.kind = "file" =>
        /\ ev.call.called
              => /\ IsNormalOf(ev.raw, ev.call.table)
                 /\ ev.call.table \in config.whitelist
        /\ ev.matched /\ (\A t \in config.whitelist : ~IsNormalOf(ev.raw, t))
              => /\ ~ev.read
                 /\ ~ev.call.called
                 /\ ev.raised = "none"
                 /\ pc \in {"participant", "looper", "done"}
                 /\ fi >= 2 /\ files[fi - 1] = ev.name

C5_Witness ==
    /\ ev.kind = "file"
    /\ ev.matched
    /\ \E i \in 1..Len(ev.raw) : ev.raw[i] = "-"
    /\ ev.raw \in config.whitelist
    /\ ~ev.read /\ ~ev.call.called
    /\ pc = "participant"

(* C10 *)

\* C10: an entry that is no directory is warned about and then branched on by
\* name: with an active name the listing raises and the run stops at that
\* entry, the remaining entries unprocessed; with a name of neither pattern it
\* is skipped and the loop goes on.
C10_NonDirectoryEntry ==
    ev.kind = "entry" /\ ~ev.isdir =>
        /\ ev.warnedNotDir
        /\ dir_name_active(ev.name) /\ ~dir_name_withdrew(ev.name)
              => /\ ev.raised /\ ~ev.listed
                 /\ pc = "crashed"
                 /\ di = ev.index
        /\ ~dir_name_active(ev.name) /\ ~dir_name_withdrew(ev.name)
              => /\ ~ev.raised /\ ~ev.listed
                 /\ pc \in {"looper", "done"}
                 /\ di = ev.index + 1

C10_Witness ==
    /\ pc = "crashed"
    /\ ev.kind = "entry" /\ ~ev.isdir /\ ev.raised
    /\ di < Len(directories)
    /\ dir_name_active(directories[di + 1])

(* C4 *)

\* The file name's segments are tags, then a table segment with extension.
WellFormed(g) ==
    /\ TagSegs(g, Len(g) - 1)
    /\ HasCsvExt(g[Len(g)])
    /\ TableOf(g[Len(g)]) # <<>>
    /\ AllIn(TableOf(g[Len(g)]), 1, Len(TableOf(g[Len(g)])), TableCh)

\* C4: a file name whose underscore-delimited segments are all non-empty is
\* Matched exactly when it has at least four segments, all but the last
\* alphanumeric and the last made of alphanumerics, spaces and hyphens
\* followed by .csv (and possibly one newline); the participant ID is then the
\* segment before the last (the third only when there are exactly four) and
\* the raw table name the last segment without the extension; a name of fewer
\* than four segments is Unmatched; an Unmatched file is skipped with a
\* warning, neither loaded nor submitted.
C4_AtLeastFourSegments ==
    ev.kind = "file" =>
        /\ NonEmptySegs(SplitOn(ev.name))
              => (ev.matched <=> (Len(SplitOn(ev.name)) >= 4 /\ WellFormed(SplitOn(ev.name))))
        /\ ev.matched /\ NonEmptySegs(SplitOn(ev.name))
              => /\ ev.pid = SplitOn(ev.name)[Len(SplitOn(ev.name)) - 1]
                 /\ ev.raw = TableOf(SplitOn(ev.name)[Len(SplitOn(ev.name))])
        /\ Len(SplitOn(ev.name)) < 4 => ~ev.matched
        /\ ~ev.matched
              => /\ ev.log = "warning"
                 /\ ~ev.read /\ ~ev.call.called /\ ev.raised = "none"

\* C4 as the specification states it, read over the names whose segments
\* are non-empty and that hold no newline: Matched exactly for four segments,
\* the participant ID being the third.
C4_ExactlyFourSegments ==
    ev.kind = "file" /\ NonEmptySegs(SplitOn(ev.name))
        /\ (\A i \in 1..Len(ev.name) : ev.name[i] # "\n") =>
        /\ ev.matched <=> /\ Len(SplitOn(ev.name)) = 4
                          /\ TagSegs(SplitOn(ev.name), 3)
                          /\ EndsWith(SplitOn(ev.name)[4], sCsv)
                          /\ TableOf(SplitOn(ev.name)[4]) # <<>>
                          /\ AllIn(TableOf(SplitOn(ev.name)[4]), 1,
                                   Len(TableOf(SplitOn(ev.name)[4])), TableCh)
        /\ ev.matched
              => /\ ev.pid = SplitOn(ev.name)[3]
                 /\ ev.raw = TableOf(SplitOn(ev.name)[4])
        /\ Len(SplitOn(ev.name)) # 4 => ~ev.matched /\ ev.log = "warning"

C4_Witness ==
    /\ ev.kind = "file"
    /\ ev.matched
    /\ Len(SplitOn(ev.name)) = 5
    /\ NonEmptySegs(SplitOn(ev.name))
    /\ ev.pid = SplitOn(ev.name)[4]
    /\ ev.pid # SplitOn(ev.name)[3]

(* C6 *)

\* The storage root without its trailing slash, if it has one.
Root(s3_path) ==
    IF s3_path # <<>> /\ s3_path[Len(s3_path)] = "/"
    THEN SubSeq(s3_path, 1, Len(s3_path) - 1)
    ELSE s3_path

\* C6: for every storage root and table name, computing the storage path
\* never raises, and the path is the root, one slash, the table name and a
\* trailing slash, whether or not the root already ends in a slash.
C6_TablePath ==
    ev.kind = "path" =>
        /\ ~ev.raised
        /\ ev.path = Root(pin.s3) \o <<"/">> \o pin.table \o <<"/">>

(* C7 *)

\* C7: the classification of an entry name is exactly one of Active,
\* Withdrawn, Invalid: Withdrawn exactly when the whole name is PPID, digits
\* and " Data - withdrew", Active exactly when the whole name is PPID, digits
\* and " Data", Invalid otherwise; only Active entries are descended into.
C7_DirectoryClassification ==
    ev.kind = "dir" =>
        /\ ev.class \in {"Active", "Withdrawn", "Invalid"}
        /\ ev.class = "Withdrawn" <=> ExactName(ev.name, sWithdrew)
        /\ ev.class = "Active" <=> ExactName(ev.name, sData)
        /\ ev.descends <=> ev.class = "Active"

(* C8 *)

\* The date pattern was found in the sample: the conversion was attempted.
PatternMatched == ev.log \in {"updated", "warning"}

\* C8: smartTyper's date pattern matches the sample exactly when the sample
\* is a string that begins with YYYY-MM-DD, month 01-12 and day 01-31 by
\* format only, the date being followed by the end of the string or by a
\* character that is no letter, digit or underscore; the converted table is
\* returned exactly when the pattern matches and the bulk parse of the column
\* does not raise; a sample that is no string yields no conversion.
C8_DatePrefixSniff ==
    ev.kind = "sniff" =>
        /\ PatternMatched
              <=> /\ sampleEntry(pin.column).type = "str"
                  /\ PrefixDate(sampleEntry(pin.column).s)
                  /\ \/ Len(sampleEntry(pin.column).s) = 10
                     \/ sampleEntry(pin.column).s[11] \notin Word
        /\ ev.ret = "df" <=> PatternMatched /\ ~pin.parseRaises
        /\ sampleEntry(pin.column).type # "str" => ev.ret # "df"

\* C8 as the specification states it: a conversion exactly when the sample
\* is a string of the form YYYY-MM-DD.
C8_ExactDateSniff ==
    ev.kind = "sniff" =>
        (ev.ret = "df"
            <=> /\ sampleEntry(pin.column).type = "str"
                /\ Len(sampleEntry(pin.column).s) = 10
                /\ PrefixDate(sampleEntry(pin.column).s))

C8_Witness ==
    /\ ev.kind = "sniff"
    /\ ev.ret = "df"
    /\ sampleEntry(pin.column).type = "str"
    /\ Len(sampleEntry(pin.column).s) > 10

(* C9 *)

TreeFileNames == {fSleep, fSleep2, fPeriods, fHr, fBad}

\* File f of directory d is in the tree under an active participant.
InTree(d, f) ==
    /\ \E i \in 1..Len(env.tree.root) : env.tree.root[i] = d
    /\ ExactName(d, sData)
    /\ \E k \in 1..Len(LayoutFiles(env.tree.layout, d)) :
          LayoutFiles(env.tree.layout, d)[k] = f

\* What a run does with file f of directory d of the tree, m being the
\* match of its name.
TreeStepsOf(d, f, m) ==
    {matchedStep(d, f, m, config, c, r, "ok") :
        c \in pd_read_csv(d, f),
        r \in UNION {ParseChoices(c, normalize(m.g4)) : c \in pd_read_csv(d, f)}}

TreeSteps(d, f) == UNION {TreeStepsOf(d, f, m) : m \in {file_name(f)}}

\* A run over the tree submits a table for the file whose steps are S.
Ingestable(S) == \A e \in S : e.call.called /\ e.call.df.kind = "df"

\* No file of the tree ends the run: every run over it is complete.
RunsComplete ==
    \A d \in DirCat, f \in TreeFileNames :
        InTree(d, f) => \A e \in TreeSteps(d, f) : e.raised = "none"

\* C9: with a sink that appends, over an unchanged tree whose runs are
\* complete, the rows of every ingested file are in its table once per run,
\* those of the earlier runs and of the other participants' files included:
\* n times after n runs, and in no table but the file's.  No file has more
\* row batches than there were runs, and a file outside the active
\* directories of the tree has none.
C9_RerunAdditive ==
    /\ \A i \in 1..Len(sinkStore.rows) :
          IsNormalOf(file_name(sinkStore.rows[i].src[2]).g4, sinkStore.rows[i].table)
    /\ \A d \in DirCat, f \in TreeFileNames :
          /\ Rows(<<d, f>>) <= runs
          /\ ~InTree(d, f) => Rows(<<d, f>>) = 0
    /\ RunsComplete =>
          \A d \in DirCat, f \in TreeFileNames :
             InTree(d, f) =>
                \A S \in {TreeSteps(d, f)} :
                   IF Ingestable(S)
                   THEN /\ Rows(<<d, f>>) \in {runs - 1, runs}
                        /\ pc = "done" => Rows(<<d, f>>) = runs
                   ELSE Rows(<<d, f>>) = 0

C9_Witness ==
    /\ pc = "done"
    /\ runs >= 2
    /\ \E i, j \in 1..Len(sinkStore.rows) :
          /\ sinkStore.rows[i].src[1] # sinkStore.rows[j].src[1]
          /\ sinkStore.rows[i].table = sinkStore.rows[j].table
          /\ Rows(sinkStore.rows[i].src) = runs
          /\ Rows(sinkStore.rows[j].src) = runs

====
